---- MODULE Spec2Model ----
(***************************************************************************)
(* A model of the ARM7TDMI core of GBArs: the register file with its mode  *)
(* banks, CPSR/SPSR, reset and exception entry, and the ARM-state executor *)
(* of src/hardware/cpu/arm7tdmi/execarm.rs.                                *)
(*                                                                         *)
(* A 32-bit word (u32, or the bit pattern of an i32) is the set of its one *)
(* bits, a subset of 0..31: bitwise operators become set operators, and    *)
(* arithmetic is done on 16-bit limbs so that no intermediate value leaves *)
(* the range of the model checker's integers.                              *)
(***************************************************************************)
EXTENDS Integers, FiniteSets, Sequences, TLC

VARIABLES cpu, pre, last, booted, steps, left

vars == <<cpu, pre, last, booted, steps, left>>

----------------------------------------------------------------------------
(* Bounds of the model. *)

\* Longest sequence of host calls explored by Spec.
MaxSteps == 3

\* Longest sequence of host calls explored by SpecBank.
MaxBankSteps == 7

\* Number of instructions SpecAlu executes on each operand pair.
MaxAluSteps == 1

\* Longest sequence of host calls explored by SpecPipe.
MaxPipeSteps == 4

\* Longest sequence of host calls explored by SpecPsr.
MaxPsrSteps == 6

\* Longest sequence of host calls explored by SpecCond.
MaxCondSteps == 2

\* Longest sequence of host calls explored by SpecFiq.
MaxFiqSteps == 5

\* Number of instructions SpecMul executes on each operand tuple.
MaxMulSteps == 1
MaxStateSteps == 4

----------------------------------------------------------------------------
(* 32-bit words. *)

AllBits == 0..31

\* The bits of a 16-bit natural.
Half(n) == {i \in 0..15 : (n \div (2^i)) % 2 = 1}

\* The word hi * 2^16 + lo.
WordOf(hi, lo) == Half(lo) \cup {i + 16 : i \in Half(hi)}

\* The natural whose bit i - lo is set for every i of w.
RECURSIVE BitsValue(_, _)
BitsValue(w, lo) ==
    IF w = {} THEN 0
    ELSE LET i == CHOOSE j \in w : TRUE
         IN  2^(i - lo) + BitsValue(w \ {i}, lo)

\* Bits 15..0 and bits 31..16 of a word, as naturals.
Lo16(w) == BitsValue(w \cap (0..15), 0)

Hi16(w) == BitsValue(w \cap (16..31), 16)

\* Bits 31..16 of a word read as an i32: the upper limb carries the sign.
SHi16(w) == Hi16(w) - (IF 31 \in w THEN 65536 ELSE 0)

\* Bitwise operators of i32/u32.
BitAnd(a, b) == a \cap b
BitOr(a, b)  == a \cup b
BitXor(a, b) == (a \ b) \cup (b \ a)
BitNot(a)    == AllBits \ a

\* i32::wrapping_add and i32::wrapping_sub.
wrapping_add(a, b) ==
    LET l == Lo16(a) + Lo16(b)
        h == Hi16(a) + Hi16(b) + (l \div 65536)
    IN  WordOf(h % 65536, l % 65536)

wrapping_sub(a, b) ==
    LET l == Lo16(a) - Lo16(b)
        h == Hi16(a) - Hi16(b) - (IF l < 0 THEN 1 ELSE 0)
    IN  WordOf(h % 65536, l % 65536)

\* i32::overflowing_add(..).1 and i32::overflowing_sub(..).1: the exact
\* signed result does not fit an i32.
\* The carry out of bit 31 in place of the signed overflow.
overflowing_add_flag_Carry(a, b) ==
    LET l == Lo16(a) + Lo16(b)
    IN  Hi16(a) + Hi16(b) + (l \div 65536) > 65535

overflowing_add_flag(a, b) ==
    LET l == Lo16(a) + Lo16(b)
        h == SHi16(a) + SHi16(b) + (l \div 65536)
    IN  h < -32768 \/ h > 32767

overflowing_sub_flag(a, b) ==
    LET l == Lo16(a) - Lo16(b)
        h == SHi16(a) - SHi16(b) - (IF l < 0 THEN 1 ELSE 0)
    IN  h < -32768 \/ h > 32767

\* A u64 is the tuple of its four 16-bit limbs, least significant first.
AsU64(w) == <<Lo16(w), Hi16(w), 0, 0>>

\* u64::wrapping_add and u64::wrapping_sub.
U64WrappingAdd(x, y) ==
    LET s1 == x[1] + y[1]
        s2 == x[2] + y[2] + (s1 \div 65536)
        s3 == x[3] + y[3] + (s2 \div 65536)
        s4 == x[4] + y[4] + (s3 \div 65536)
    IN  <<s1 % 65536, s2 % 65536, s3 % 65536, s4 % 65536>>

U64WrappingSub(x, y) ==
    LET d1 == x[1] - y[1]
        d2 == x[2] - y[2] - (IF d1 < 0 THEN 1 ELSE 0)
        d3 == x[3] - y[3] - (IF d2 < 0 THEN 1 ELSE 0)
        d4 == x[4] - y[4] - (IF d3 < 0 THEN 1 ELSE 0)
    IN  <<d1 % 65536, d2 % 65536, d3 % 65536, d4 % 65536>>

\* 0 != (res64 & (1 << 32))
U64Bit32(x) == x[3] % 2 = 1

\* `x as i64` and `x as u64` of an i32 x: both extend the sign. The value
\* is the set of its one bits, a subset of 0..63.
SignExtend64(w) == w \cup (IF 31 \in w THEN 32..63 ELSE {})

\* The four 16-bit limbs of a set of bits of 0..63.
U64Limbs(x) ==
    << BitsValue(x \cap (0..15), 0),   BitsValue(x \cap (16..31), 16),
       BitsValue(x \cap (32..47), 32), BitsValue(x \cap (48..63), 48) >>

\* Long multiplication in base 256. Byte i of a set of bits:
Byte(x, i) == BitsValue(x \cap ((8 * i)..(8 * i + 7)), 8 * i)

\* The sum of the byte products x_j * y_(k-j) for j in 0..i.
RECURSIVE MulColumn(_, _, _, _)
MulColumn(x, y, k, i) ==
    IF i < 0 THEN 0 ELSE Byte(x, i) * Byte(y, k - i) + MulColumn(x, y, k, i - 1)

\* The carry out of column k, and digit k of the product.
RECURSIVE MulCarry(_, _, _)
MulCarry(x, y, k) ==
    IF k < 0 THEN 0 ELSE (MulColumn(x, y, k, k) + MulCarry(x, y, k - 1)) \div 256

MulDigit(x, y, k) == (MulColumn(x, y, k, k) + MulCarry(x, y, k - 1)) % 256

MulLimb(x, y, n) == MulDigit(x, y, 2 * n) + 256 * MulDigit(x, y, 2 * n + 1)

\* i32::wrapping_mul: the low 32 bits of the product.
wrapping_mul(a, b) == WordOf(MulLimb(a, b, 1), MulLimb(a, b, 0))

\* u64::wrapping_mul and i64::wrapping_mul of the bit sets x and y, as limbs:
\* the low 64 bits of the product are the same for both.
U64WrappingMul(x, y) ==
    <<MulLimb(x, y, 0), MulLimb(x, y, 1), MulLimb(x, y, 2), MulLimb(x, y, 3)>>

\* The high and the low word of a u64 given as limbs.
U64High(x) == WordOf(x[4], x[3])

U64Low(x) == WordOf(x[2], x[1])

\* Unsigned comparison of two words.
UnsignedGeq(a, b) ==
    \/ Hi16(a) > Hi16(b)
    \/ Hi16(a) = Hi16(b) /\ Lo16(a) >= Lo16(b)

----------------------------------------------------------------------------
(* enum State, enum Mode, enum Exception. *)

State == {"ARM", "THUMB"}

Mode == {"User", "FIQ", "IRQ", "Supervisor", "Abort", "Undefined", "System"}

\* `mode as u8 as usize`
ModeIndex(m) ==
    CASE m = "User"       -> 0
      [] m = "FIQ"        -> 1
      [] m = "IRQ"        -> 2
      [] m = "Supervisor" -> 3
      [] m = "Abort"      -> 4
      [] m = "Undefined"  -> 5
      [] m = "System"     -> 6

Exception == {"Reset", "UndefinedInstruction", "SoftwareInterrupt",
              "PrefetchAbort", "DataAbort", "AddressExceeds26Bit",
              "NormalInterrupt", "FastInterrupt"}

\* `self as u8`
ExceptionIndex(ex) ==
    CASE ex = "Reset"                -> 0
      [] ex = "UndefinedInstruction" -> 1
      [] ex = "SoftwareInterrupt"    -> 2
      [] ex = "PrefetchAbort"        -> 3
      [] ex = "DataAbort"            -> 4
      [] ex = "AddressExceeds26Bit"  -> 5
      [] ex = "NormalInterrupt"      -> 6
      [] ex = "FastInterrupt"        -> 7

mode_on_entry(ex) ==
    CASE ex = "Reset"                -> "Supervisor"
      [] ex = "UndefinedInstruction" -> "Undefined"
      [] ex = "SoftwareInterrupt"    -> "Supervisor"
      [] ex = "PrefetchAbort"        -> "Abort"
      [] ex = "DataAbort"            -> "Abort"
      [] ex = "AddressExceeds26Bit"  -> "Supervisor"
      [] ex = "NormalInterrupt"      -> "IRQ"
      [] ex = "FastInterrupt"        -> "FIQ"

\* A disable_fiq_on_entry that forgets FastInterrupt.
disable_fiq_on_entry_ResetOnly(ex) == (ex = "Reset")

disable_fiq_on_entry(ex) == (ex = "Reset") \/ (ex = "FastInterrupt")

\* A vector_address that does not scale the exception's index to words.
vector_address_Unscaled(ex) == WordOf(0, ExceptionIndex(ex))

vector_address(ex) == WordOf(0, ExceptionIndex(ex) * 4)

----------------------------------------------------------------------------
(* struct CPSR. *)

NON_RESERVED_MASK == (28..31) \cup (0..7)

\* CPSR::FLAGS_MASK is used by execarm.rs but declared in no source file at
\* hand; the specification gives bits 31..24 to the flags-only interface.
FLAGS_MASK == 24..31

SIGN_FLAG_BIT     == 31
ZERO_FLAG_BIT     == 30
CARRY_FLAG_BIT    == 29
OVERFLOW_FLAG_BIT == 28
IRQ_DISABLE_BIT   == 7
FIQ_DISABLE_BIT   == 6
STATE_BIT         == 5

MODE_MASK       == 0..4
MODE_USER       == {4}
MODE_FIQ        == {4, 0}
MODE_IRQ        == {4, 1}
MODE_SUPERVISOR == {4, 1, 0}
MODE_ABORT      == {4, 2, 1, 0}
MODE_UNDEFINED  == {4, 3, 1, 0}
MODE_SYSTEM     == {4, 3, 2, 1, 0}

as_bits(m) ==
    CASE m = "User"       -> MODE_USER
      [] m = "FIQ"        -> MODE_FIQ
      [] m = "IRQ"        -> MODE_IRQ
      [] m = "Supervisor" -> MODE_SUPERVISOR
      [] m = "Abort"      -> MODE_ABORT
      [] m = "Undefined"  -> MODE_UNDEFINED
      [] m = "System"     -> MODE_SYSTEM

\* CPSR::mode: the mode of a bit pattern; any other pattern panics, which
\* the callers see as "Illegal".
cpsr_mode(c) ==
    LET bits == c \cap MODE_MASK
    IN  CASE bits = MODE_USER       -> "User"
          [] bits = MODE_FIQ        -> "FIQ"
          [] bits = MODE_IRQ        -> "IRQ"
          [] bits = MODE_SUPERVISOR -> "Supervisor"
          [] bits = MODE_ABORT      -> "Abort"
          [] bits = MODE_UNDEFINED  -> "Undefined"
          [] bits = MODE_SYSTEM     -> "System"
          [] OTHER                  -> "Illegal"

cpsr_state(c) == IF STATE_BIT \in c THEN "THUMB" ELSE "ARM"

set_state(c, s) == (c \ {STATE_BIT}) \cup (IF s = "THUMB" THEN {STATE_BIT} ELSE {})

set_mode(c, m) == (c \ MODE_MASK) \cup as_bits(m)

disable_irq(c) == c \cup {IRQ_DISABLE_BIT}

disable_fiq(c) == c \cup {FIQ_DISABLE_BIT}

SetBit(c, b, v) == IF v THEN c \cup {b} ELSE c \ {b}

flag_N(c) == SIGN_FLAG_BIT \in c
flag_Z(c) == ZERO_FLAG_BIT \in c
flag_C(c) == CARRY_FLAG_BIT \in c
flag_V(c) == OVERFLOW_FLAG_BIT \in c

set_N(c, v) == SetBit(c, SIGN_FLAG_BIT, v)
set_Z(c, v) == SetBit(c, ZERO_FLAG_BIT, v)
\* A carry setter that writes the overflow bit.
set_C_WritesV(c, v) == SetBit(c, OVERFLOW_FLAG_BIT, v)

set_C(c, v) == SetBit(c, CARRY_FLAG_BIT, v)

set_V(c, v) == SetBit(c, OVERFLOW_FLAG_BIT, v)

----------------------------------------------------------------------------
(* struct Arm7Tdmi. *)

SP == 13
LR == 14
PC == 15

Zero == {}

\* Arm7Tdmi::new
new ==
    [ gpr              |-> [i \in 0..15 |-> Zero],
      cpsr             |-> Zero,
      spsr             |-> [i \in 0..6 |-> Zero],
      decoded          |-> "NOP",
      fetched          |-> "NOP_RAW",
      gpr_r8_r12_fiq   |-> [i \in 0..4 |-> Zero],
      gpr_r8_r12_other |-> [i \in 0..4 |-> Zero],
      gpr_r13_all      |-> [i \in 0..6 |-> Zero],
      gpr_r14_all      |-> [i \in 0..6 |-> Zero],
      mode             |-> "System",
      state            |-> "ARM",
      irq_disable      |-> FALSE,
      fiq_disable      |-> FALSE ]

\* A reset that leaves fast interrupts enabled in CPSR.
reset_NoFiqDisable(c) ==
    [c EXCEPT !.gpr[PC]      = Zero,
              !.cpsr         = MODE_SUPERVISOR \cup {IRQ_DISABLE_BIT},
              !.mode         = "Supervisor",
              !.state        = "ARM",
              !.irq_disable  = TRUE,
              !.fiq_disable  = TRUE]

\* Arm7Tdmi::reset
reset(c) ==
    [c EXCEPT !.gpr[PC]      = Zero,
              !.cpsr         = MODE_SUPERVISOR \cup {IRQ_DISABLE_BIT} \cup {FIQ_DISABLE_BIT},
              !.mode         = "Supervisor",
              !.state        = "ARM",
              !.irq_disable  = TRUE,
              !.fiq_disable  = TRUE]

\* A bank_r13_r14_spsr that does not save the outgoing R13.
bank_r13_r14_spsr_NoR13Save(c, new_mode) ==
    LET cmi      == ModeIndex(c.mode)
        nmi      == ModeIndex(new_mode)
        ret_addr == c.gpr[PC]
        r14_all  == [c.gpr_r14_all EXCEPT ![cmi] = c.gpr[14], ![nmi] = ret_addr]
        r13_all  == c.gpr_r13_all
    IN  [c EXCEPT !.gpr_r14_all = r14_all,
                  !.gpr_r13_all = r13_all,
                  !.gpr         = [c.gpr EXCEPT ![14] = ret_addr, ![13] = r13_all[nmi]],
                  !.spsr[nmi]   = c.cpsr]

\* A bank_r13_r14_spsr that saves CPSR in the outgoing mode's SPSR slot.
bank_r13_r14_spsr_SpsrOfOldMode(c, new_mode) ==
    LET cmi      == ModeIndex(c.mode)
        nmi      == ModeIndex(new_mode)
        ret_addr == c.gpr[PC]
        r14_all  == [c.gpr_r14_all EXCEPT ![cmi] = c.gpr[14], ![nmi] = ret_addr]
        r13_all  == [c.gpr_r13_all EXCEPT ![cmi] = c.gpr[13]]
    IN  [c EXCEPT !.gpr_r14_all = r14_all,
                  !.gpr_r13_all = r13_all,
                  !.gpr         = [c.gpr EXCEPT ![14] = ret_addr, ![13] = r13_all[nmi]],
                  !.spsr[cmi]   = c.cpsr]

\* Arm7Tdmi::change_mode, "Save banked registers R13, R14, SPSR."
bank_r13_r14_spsr(c, new_mode) ==
    LET cmi      == ModeIndex(c.mode)
        nmi      == ModeIndex(new_mode)
        ret_addr == c.gpr[PC]
        r14_all  == [c.gpr_r14_all EXCEPT ![cmi] = c.gpr[14], ![nmi] = ret_addr]
        r13_all  == [c.gpr_r13_all EXCEPT ![cmi] = c.gpr[13]]
    IN  [c EXCEPT !.gpr_r14_all = r14_all,
                  !.gpr_r13_all = r13_all,
                  !.gpr         = [c.gpr EXCEPT ![14] = ret_addr, ![13] = r13_all[nmi]],
                  !.spsr[nmi]   = c.cpsr]

\* A bank_r8_r12 that loads the incoming bank without saving the visible
\* registers to the outgoing one.
bank_r8_r12_NoSave(c, new_mode) ==
    IF (new_mode = "FIQ") # (c.mode = "FIQ")
    THEN [c EXCEPT !.gpr = [r \in 0..15 |->
                               IF r \in 8..12
                               THEN IF new_mode = "FIQ" THEN c.gpr_r8_r12_fiq[r - 8]
                                                        ELSE c.gpr_r8_r12_other[r - 8]
                               ELSE c.gpr[r]]]
    ELSE c

\* Arm7Tdmi::change_mode, "Now the banked registers R8..R12."
bank_r8_r12(c, new_mode) ==
    IF (new_mode = "FIQ") # (c.mode = "FIQ")
    THEN IF new_mode = "FIQ"
         THEN [c EXCEPT !.gpr_r8_r12_other = [i \in 0..4 |-> c.gpr[i + 8]],
                        !.gpr = [r \in 0..15 |->
                                    IF r \in 8..12 THEN c.gpr_r8_r12_fiq[r - 8]
                                                   ELSE c.gpr[r]]]
         ELSE [c EXCEPT !.gpr_r8_r12_fiq = [i \in 0..4 |-> c.gpr[i + 8]],
                        !.gpr = [r \in 0..15 |->
                                    IF r \in 8..12 THEN c.gpr_r8_r12_other[r - 8]
                                                   ELSE c.gpr[r]]]
    ELSE c

\* Arm7Tdmi::change_mode
change_mode(c, new_mode) ==
    LET c1 == bank_r13_r14_spsr(c, new_mode)
        c2 == bank_r8_r12(c1, new_mode)
    IN  [c2 EXCEPT !.cpsr = set_mode(c2.cpsr, new_mode),
                   !.mode = new_mode]

\* Arm7Tdmi::exception
exception(c, ex) ==
    LET c1    == change_mode(c, mode_on_entry(ex))
        cpsr1 == disable_irq(set_state(c1.cpsr, "ARM"))
        cpsr2 == IF disable_fiq_on_entry(ex) THEN disable_fiq(cpsr1) ELSE cpsr1
    IN  [c1 EXCEPT !.cpsr    = cpsr2,
                   !.state   = "ARM",
                   !.gpr[PC] = vector_address(ex)]

----------------------------------------------------------------------------
(* The decoded instruction, as the executor sees it through the decoder's  *)
(* accessors.  The decoder (arminstruction.rs) is outside the sources at   *)
(* hand: its accessors are fields of a record, and its condition check and *)
(* shift-field helpers follow the specification.                           *)

ArmOpcode == {"BX", "B_BL", "MUL_MLA", "MULL_MLAL", "DataProcessing",
              "MRS", "MSR_Reg", "MSR_Flags", "LDR_STR"}

ArmDPOP == {"AND", "EOR", "SUB", "RSB", "ADD", "ADC", "SBC", "RSC",
            "TST", "TEQ", "CMP", "CMN", "ORR", "MOV", "BIC", "MVN"}

is_logical(op) == op \in {"AND", "EOR", "TST", "TEQ", "ORR", "MOV", "BIC", "MVN"}

is_test(op) == op \in {"TST", "TEQ", "CMP", "CMN"}

\* An operand of the shift field: an immediate, or a register passed
\* through the shifter unshifted.
Imm(v)    == [kind |-> "imm", val |-> v, reg |-> 0]
RegOp(r)  == [kind |-> "reg", val |-> Zero, reg |-> r]

\* The fields of a decoded instruction.
ArmInstruction(cond, opcode, f) ==
    [ spsr   |-> f.spsr,
      cond   |-> cond,
      opcode |-> opcode,
      Rm     |-> f.Rm,
      Rn     |-> f.Rn,
      Rd     |-> f.Rd,
      Rs     |-> f.Rs,
      S      |-> f.S,
      A      |-> f.A,
      signed |-> f.signed,
      link   |-> f.link,
      dpop   |-> f.dpop,
      offset |-> f.offset,
      op2    |-> f.op2 ]

NoFields ==
    [ spsr |-> FALSE, Rm |-> 0, Rn |-> 0, Rd |-> 0, Rs |-> 0, S |-> FALSE,
      A |-> FALSE, signed |-> FALSE, link |-> FALSE, dpop |-> "MOV",
      offset |-> Zero, op2 |-> Imm(Zero) ]

\* Condition::check against the N, Z, C and V flags of CPSR.
condition_check(cond, c) ==
    CASE cond = "EQ" -> flag_Z(c)
      [] cond = "NE" -> ~flag_Z(c)
      [] cond = "CS" -> flag_C(c)
      [] cond = "CC" -> ~flag_C(c)
      [] cond = "MI" -> flag_N(c)
      [] cond = "PL" -> ~flag_N(c)
      [] cond = "VS" -> flag_V(c)
      [] cond = "VC" -> ~flag_V(c)
      [] cond = "HI" -> flag_C(c) /\ ~flag_Z(c)
      [] cond = "LS" -> ~flag_C(c) \/ flag_Z(c)
      [] cond = "GE" -> flag_N(c) = flag_V(c)
      [] cond = "LT" -> flag_N(c) # flag_V(c)
      [] cond = "GT" -> ~flag_Z(c) /\ (flag_N(c) = flag_V(c))
      [] cond = "LE" -> flag_Z(c) \/ (flag_N(c) # flag_V(c))
      [] cond = "AL" -> TRUE

\* ArmInstruction::calculate_shft_field: the second operand.
calculate_shft_field(inst, gpr, carry) ==
    IF inst.op2.kind = "imm" THEN inst.op2.val ELSE gpr[inst.op2.reg]

\* ArmInstruction::calculate_shft_field_with_carry: the second operand and
\* the shifter's carry-out, which is the incoming C for an unshifted operand.
calculate_shft_field_with_carry(inst, gpr, carry) ==
    [op2 |-> calculate_shft_field(inst, gpr, carry), cshft |-> carry]

\* ArmInstruction::calculate_shsr_field: the operand of MSR_Flags.
calculate_shsr_field(inst, gpr) ==
    IF inst.op2.kind = "imm" THEN inst.op2.val ELSE gpr[inst.op2.reg]

----------------------------------------------------------------------------
(* The ARM-state executor (execarm.rs).  An execute_* operator yields the  *)
(* CPU after the handler and the handler's result: "Ok", the error         *)
(* "PrivilegedUserCode", or "Panic" when the handler panics.               *)

Ok(c)    == [cpu |-> c, result |-> "Ok"]
Err(c)   == [cpu |-> c, result |-> "PrivilegedUserCode"]
Panic(c) == [cpu |-> c, result |-> "Panic"]

\* An override_psr that writes the flag bits only.
override_psr_FlagsOnly(psr, val) ==
    BitOr(BitAnd(val, FLAGS_MASK), BitAnd(psr, BitNot(FLAGS_MASK)))

override_psr(psr, val) ==
    BitOr(BitAnd(val, NON_RESERVED_MASK), BitAnd(psr, BitNot(NON_RESERVED_MASK)))

\* A flags-only write that copies the control bits as well.
override_psr_flags_ControlBits(psr, val) ==
    BitOr(BitAnd(val, NON_RESERVED_MASK), BitAnd(psr, BitNot(NON_RESERVED_MASK)))

override_psr_flags(psr, val) ==
    BitOr(BitAnd(val, FLAGS_MASK), BitAnd(psr, BitNot(FLAGS_MASK)))

execute_bx(c, inst) ==
    LET addr  == c.gpr[inst.Rm]
        state == IF 0 \in addr THEN "THUMB" ELSE "ARM"
    IN  Ok([c EXCEPT !.state   = state,
                     !.cpsr    = set_state(c.cpsr, state),
                     !.gpr[15] = addr \ {0}])

\* A branch that takes the link from the PC after the branch.
execute_b_bl_LinkAfterBranch(c, inst) ==
    LET c1 == [c EXCEPT !.gpr[15] = wrapping_add(c.gpr[15], inst.offset)]
    IN  Ok(IF inst.link
           THEN [c1 EXCEPT !.gpr[14] = wrapping_sub(c1.gpr[15], WordOf(0, 4))]
           ELSE c1)

execute_b_bl(c, inst) ==
    LET c1 == IF inst.link
              THEN [c EXCEPT !.gpr[14] = wrapping_sub(c.gpr[15], WordOf(0, 4))]
              ELSE c
    IN  Ok([c1 EXCEPT !.gpr[15] = wrapping_add(c1.gpr[15], inst.offset)])

add_carry_overflow(a, b) ==
    LET res64 == U64WrappingAdd(AsU64(a), AsU64(b))
    IN  [c   |-> U64Bit32(res64),
         v   |-> overflowing_add_flag(a, b),
         res |-> wrapping_add(a, b)]

sub_carry_overflow(a, b) ==
    LET res64 == U64WrappingSub(AsU64(a), AsU64(b))
    IN  [c   |-> U64Bit32(res64),
         v   |-> overflowing_sub_flag(a, b),
         res |-> wrapping_sub(a, b)]

\* A result that leaves the helper outputs cf and vf at their initial false.
NoCarry(res) == [c |-> FALSE, v |-> FALSE, res |-> res]

One == WordOf(0, 1)

execute_data_processing_s(c, inst) ==
    LET sh    == calculate_shft_field_with_carry(inst, c.gpr, flag_C(c.cpsr))
        op2   == sh.op2
        cshft == sh.cshft
        rn    == c.gpr[inst.Rn]
        cw    == IF flag_C(c.cpsr) THEN One ELSE Zero
        ncw   == wrapping_sub(One, cw)
        op    == inst.dpop
        r     == CASE op \in {"AND", "TST"} -> NoCarry(BitAnd(rn, op2))
                   [] op \in {"EOR", "TEQ"} -> NoCarry(BitXor(rn, op2))
                   [] op \in {"SUB", "CMP"} -> sub_carry_overflow(rn, op2)
                   [] op = "RSB"            -> sub_carry_overflow(op2, rn)
                   [] op \in {"ADD", "CMN"} -> add_carry_overflow(rn, op2)
                   [] op = "ADC"            -> add_carry_overflow(rn, wrapping_add(op2, cw))
                   [] op = "SBC"            -> sub_carry_overflow(rn, wrapping_sub(op2, ncw))
                   [] op = "RSC"            -> sub_carry_overflow(op2, wrapping_sub(rn, ncw))
                   [] op = "ORR"            -> NoCarry(BitOr(rn, op2))
                   [] op = "MOV"            -> NoCarry(op2)
                   [] op = "BIC"            -> NoCarry(BitAnd(rn, BitNot(op2)))
                   [] op = "MVN"            -> NoCarry(BitNot(op2))
        \* "Now set the flags and write the result back."
        done(res) ==
            LET rd    == res.res
                nz    == set_Z(set_N(c.cpsr, 31 \in rd), rd = Zero)
                cpsr1 == IF inst.Rd = PC
                         THEN c.spsr[ModeIndex(c.mode)]
                         ELSE IF is_logical(op)
                              THEN set_C(nz, cshft)
                              ELSE set_V(set_C(nz, res.c), res.v)
                c1    == [c EXCEPT !.cpsr = cpsr1]
            IN  Ok(IF is_test(op) THEN c1 ELSE [c1 EXCEPT !.gpr[inst.Rd] = rd])
    IN  done(r)

execute_data_processing(c, inst) ==
    IF inst.S THEN execute_data_processing_s(c, inst)
    ELSE
    LET op2 == calculate_shft_field(inst, c.gpr, flag_C(c.cpsr))
        rn  == c.gpr[inst.Rn]
        cw  == IF flag_C(c.cpsr) THEN One ELSE Zero
        ncw == wrapping_sub(One, cw)
        op  == inst.dpop
    IN  IF is_test(op) THEN Panic(c)
        ELSE Ok([c EXCEPT !.gpr[inst.Rd] =
                CASE op = "AND" -> BitAnd(rn, op2)
                  [] op = "EOR" -> BitXor(rn, op2)
                  [] op = "SUB" -> wrapping_sub(rn, op2)
                  [] op = "RSB" -> wrapping_sub(op2, rn)
                  [] op = "ADD" -> wrapping_add(rn, op2)
                  [] op = "ADC" -> wrapping_add(wrapping_add(rn, op2), cw)
                  [] op = "SBC" -> wrapping_sub(wrapping_sub(rn, op2), ncw)
                  [] op = "RSC" -> wrapping_sub(wrapping_sub(op2, rn), ncw)
                  [] op = "ORR" -> BitOr(rn, op2)
                  [] op = "MOV" -> op2
                  [] op = "BIC" -> BitAnd(rn, BitNot(op2))
                  [] op = "MVN" -> BitNot(op2)])

\* An execute_mrs without the User-mode check.
execute_mrs_NoUserCheck(c, inst) ==
    IF inst.spsr
    THEN Ok([c EXCEPT !.gpr[inst.Rd] = c.spsr[ModeIndex(c.mode)]])
    ELSE Ok([c EXCEPT !.gpr[inst.Rd] = c.cpsr])

execute_mrs(c, inst) ==
    IF inst.spsr
    THEN IF c.mode = "User"
         THEN Err(c)
         ELSE Ok([c EXCEPT !.gpr[inst.Rd] = c.spsr[ModeIndex(c.mode)]])
    ELSE Ok([c EXCEPT !.gpr[inst.Rd] = c.cpsr])

execute_msr_reg(c, inst) ==
    LET rm == c.gpr[inst.Rm]
    IN  IF c.mode = "User"
        THEN IF inst.spsr
             THEN Err(c)
             ELSE Ok([c EXCEPT !.cpsr = override_psr_flags(c.cpsr, rm)])
        ELSE LET c1 == IF inst.spsr
                       THEN [c EXCEPT !.spsr[ModeIndex(c.mode)] = override_psr(@, rm)]
                       ELSE [c EXCEPT !.cpsr = override_psr(c.cpsr, rm)]
                 old_mode == cpsr_mode(c1.cpsr)
             IN  IF old_mode = "Illegal"
                 THEN Panic(c1)
                 ELSE Ok(change_mode(c1, old_mode))

execute_msr_flags(c, inst) ==
    LET op == calculate_shsr_field(inst, c.gpr)
    IN  IF inst.spsr
        THEN IF c.mode = "User"
             THEN Err(c)
             ELSE Ok([c EXCEPT !.spsr[ModeIndex(c.mode)] = override_psr_flags(@, op)])
        ELSE Ok([c EXCEPT !.cpsr = override_psr_flags(c.cpsr, op)])

execute_mul_mla_s(c, inst) ==
    LET done(x) ==
            Ok([c EXCEPT !.gpr[inst.Rn] = x,
                         !.cpsr = set_C(set_Z(set_N(c.cpsr, 31 \in x), x = Zero), FALSE)])
        p == wrapping_mul(c.gpr[inst.Rs], c.gpr[inst.Rm])
    IN  done(IF inst.A THEN wrapping_add(p, c.gpr[inst.Rd]) ELSE p)

execute_mul_mla(c, inst) ==
    IF inst.S THEN execute_mul_mla_s(c, inst)
    ELSE LET p == wrapping_mul(c.gpr[inst.Rs], c.gpr[inst.Rm])
         IN  Ok([c EXCEPT !.gpr[inst.Rn] =
                     IF inst.A THEN wrapping_add(p, c.gpr[inst.Rd]) ELSE p])

\* Both arms of `if inst.is_signed()` convert the i32 operands with `as`,
\* which extends the sign; the accumulator is
\* ((Rn as u64) << 32) | (Rd as u64), with Rd sign-extended as well.
execute_mull_mlal(c, inst) ==
    LET acc == {j + 32 : j \in c.gpr[inst.Rn]} \cup SignExtend64(c.gpr[inst.Rd])
        p   == U64WrappingMul(SignExtend64(c.gpr[inst.Rs]), SignExtend64(c.gpr[inst.Rm]))
        done(res) ==
            LET c1 == [c EXCEPT !.gpr = [[@ EXCEPT ![inst.Rn] = U64High(res)]
                                            EXCEPT ![inst.Rd] = U64Low(res)]]
            IN  IF inst.S
                THEN Ok([c1 EXCEPT !.cpsr =
                            set_V(set_C(set_Z(set_N(c.cpsr, res[4] >= 32768),
                                              res = <<0, 0, 0, 0>>), FALSE), FALSE)])
                ELSE Ok(c1)
    IN  done(IF inst.A THEN U64WrappingAdd(p, U64Limbs(acc)) ELSE p)

\* unimplemented!()
execute_ldr_str(c, inst) == Panic(c)

\* arm7tdmi.rs keeps a second, private execute_mul_mla and execute_mul_mla_s
\* beside those of execarm.rs.  Its flag-setting form multiplies the
\* sign-extended operands in 64 bits, sets N, Z, C and V with update_flags
\* from the low word and the 64-bit value, and then clears V.
arm7tdmi_execute_mul_mla_s(c, inst) ==
    LET p == U64WrappingMul(SignExtend64(c.gpr[inst.Rs]), SignExtend64(c.gpr[inst.Rm]))
        done(res) ==
            Ok([c EXCEPT !.gpr[inst.Rn] = U64Low(res),
                         !.cpsr = set_V(set_C(set_Z(set_N(c.cpsr, 31 \in U64Low(res)),
                                                    U64Low(res) = Zero),
                                              U64Bit32(res)), FALSE)])
    IN  done(IF inst.A
             THEN U64WrappingAdd(p, U64Limbs(SignExtend64(c.gpr[inst.Rd])))
             ELSE p)

arm7tdmi_execute_mul_mla(c, inst) ==
    IF inst.S THEN arm7tdmi_execute_mul_mla_s(c, inst)
    ELSE LET p == wrapping_mul(c.gpr[inst.Rs], c.gpr[inst.Rm])
         IN  Ok([c EXCEPT !.gpr[inst.Rn] =
                     IF inst.A THEN wrapping_add(p, c.gpr[inst.Rd]) ELSE p])

\* An executor whose skipped instructions still consume their PC increment.
execute_arm_state_SkipAdvancesPc(c, inst) ==
    IF ~condition_check(inst.cond, c.cpsr)
    THEN Ok([c EXCEPT !.gpr[PC] = wrapping_add(@, WordOf(0, 4))])
    ELSE CASE inst.opcode = "BX"             -> execute_bx(c, inst)
           [] inst.opcode = "B_BL"           -> execute_b_bl(c, inst)
           [] inst.opcode = "MUL_MLA"        -> execute_mul_mla(c, inst)
           [] inst.opcode = "MULL_MLAL"      -> execute_mull_mlal(c, inst)
           [] inst.opcode = "DataProcessing" -> execute_data_processing(c, inst)
           [] inst.opcode = "MRS"            -> execute_mrs(c, inst)
           [] inst.opcode = "MSR_Reg"        -> execute_msr_reg(c, inst)
           [] inst.opcode = "MSR_Flags"      -> execute_msr_flags(c, inst)
           [] inst.opcode = "LDR_STR"        -> execute_ldr_str(c, inst)
           [] OTHER                          -> Panic(c)

execute_arm_state(c, inst) ==
    IF ~condition_check(inst.cond, c.cpsr) THEN Ok(c)
    ELSE CASE inst.opcode = "BX"             -> execute_bx(c, inst)
           [] inst.opcode = "B_BL"           -> execute_b_bl(c, inst)
           [] inst.opcode = "MUL_MLA"        -> execute_mul_mla(c, inst)
           [] inst.opcode = "MULL_MLAL"      -> execute_mull_mlal(c, inst)
           [] inst.opcode = "DataProcessing" -> execute_data_processing(c, inst)
           [] inst.opcode = "MRS"            -> execute_mrs(c, inst)
           [] inst.opcode = "MSR_Reg"        -> execute_msr_reg(c, inst)
           [] inst.opcode = "MSR_Flags"      -> execute_msr_flags(c, inst)
           [] inst.opcode = "LDR_STR"        -> execute_ldr_str(c, inst)
           [] OTHER                          -> Panic(c)

----------------------------------------------------------------------------
(* Instructions handed to the executor. *)

BX(cond, rm) ==
    ArmInstruction(cond, "BX", [NoFields EXCEPT !.Rm = rm])

B_BL(cond, link, offset) ==
    ArmInstruction(cond, "B_BL", [NoFields EXCEPT !.link = link, !.offset = offset])

DP(cond, dpop, s, rd, rn, op2) ==
    ArmInstruction(cond, "DataProcessing",
        [NoFields EXCEPT !.dpop = dpop, !.S = s, !.Rd = rd, !.Rn = rn, !.op2 = op2])

MUL_MLA(cond, acc, s, rn, rd, rs, rm) ==
    ArmInstruction(cond, "MUL_MLA",
        [NoFields EXCEPT !.A = acc, !.S = s, !.Rn = rn, !.Rd = rd, !.Rs = rs, !.Rm = rm])

MULL_MLAL(cond, sgn, acc, s, rn, rd, rs, rm) ==
    ArmInstruction(cond, "MULL_MLAL",
        [NoFields EXCEPT !.signed = sgn, !.A = acc, !.S = s,
                         !.Rn = rn, !.Rd = rd, !.Rs = rs, !.Rm = rm])

LDR_STR(cond) == ArmInstruction(cond, "LDR_STR", NoFields)

MRS(cond, spsr, rd) ==
    ArmInstruction(cond, "MRS", [NoFields EXCEPT !.spsr = spsr, !.Rd = rd])

MSR_Reg(cond, spsr, rm) ==
    ArmInstruction(cond, "MSR_Reg", [NoFields EXCEPT !.spsr = spsr, !.Rm = rm])

MSR_Flags(cond, spsr, op2) ==
    ArmInstruction(cond, "MSR_Flags", [NoFields EXCEPT !.spsr = spsr, !.op2 = op2])

NoInst == ArmInstruction("AL", "none", NoFields)

----------------------------------------------------------------------------
(* The pipeline.  Its slots are written by Arm7Tdmi::new and by            *)
(* clear_pipeline; the step that refills them (pipeline_step, called by    *)
(* the REPL) is outside the sources at hand and follows the                *)
(* specification: the decoded instruction is executed, the fetched word is *)
(* decoded, and a new word is fetched at PC.  A slot holds the name of an  *)
(* opcode word or of a decoded instruction.                                *)

\* Opcode words the bus can deliver.
RawWords == {"NOP_RAW", "BX_R14_RAW", "BL_0x100_RAW", "MOV_PC_0x200_RAW"}

\* The decoder: the decoded instruction of an opcode word.
decode(raw) ==
    CASE raw = "NOP_RAW"          -> "NOP"
      [] raw = "BX_R14_RAW"       -> "BX_R14"
      [] raw = "BL_0x100_RAW"     -> "BL_0x100"
      [] raw = "MOV_PC_0x200_RAW" -> "MOV_PC_0x200"

\* The instruction held by the decoded slot; NOP is MOV R0, R0.
instruction(d) ==
    CASE d = "NOP"          -> DP("AL", "MOV", FALSE, 0, 0, RegOp(0))
      [] d = "BX_R14"       -> BX("AL", 14)
      [] d = "BL_0x100"     -> B_BL("AL", TRUE, WordOf(0, 256))
      [] d = "MOV_PC_0x200" -> DP("AL", "MOV", FALSE, 15, 0, Imm(WordOf(0, 512)))

\* Arm7Tdmi::clear_pipeline
clear_pipeline(c) == [c EXCEPT !.decoded = "NOP", !.fetched = "NOP_RAW"]

\* One step of the pipeline in ARM state; an error of the executed
\* instruction returns from the step.
pipeline_step(c, raw) ==
    LET shift(r) ==
            IF r.result # "Ok" THEN r
            ELSE Ok([r.cpu EXCEPT !.decoded = decode(r.cpu.fetched),
                                  !.fetched = raw,
                                  !.gpr[PC] = wrapping_add(@, WordOf(0, 4))])
    IN  shift(execute_arm_state(c, instruction(c.decoded)))

----------------------------------------------------------------------------
(* The host's calls.  `pre` is the CPU before the last call, `last` the    *)
(* call and its result, and `booted` tells whether the host has reset the  *)
(* CPU since it was created; a panic ends the emulation.                   *)

\* The visible R8..R12.
VisibleR8R12(c) == [i \in 0..4 |-> c.gpr[i + 8]]

\* The two groups of modes that share a bank of R8..R12: 1 is FIQ, 2 is
\* every other mode.  `left` records, for each group, the values that were
\* visible when the CPU last left it.
BankGroup(c) == IF c.mode = "FIQ" THEN 1 ELSE 2

NeverLeft == << [i \in 0..4 |-> Zero], [i \in 0..4 |-> Zero] >>

Call(c1, l1) ==
    /\ last.result # "Panic"
    /\ cpu' = c1
    /\ last' = l1
    /\ pre' = cpu
    /\ booted' = (booted \/ l1.op = "reset")
    /\ steps' = steps + 1
    /\ left' = IF BankGroup(cpu') # BankGroup(cpu)
               THEN [left EXCEPT ![BankGroup(cpu)] = VisibleR8R12(cpu)]
               ELSE left

CallReset ==
    Call(reset(cpu),
         [ex |-> "none", op |-> "reset", inst |-> NoInst, result |-> "Ok"])

CallException(ex) ==
    Call(exception(cpu, ex),
         [ex |-> ex, op |-> "exception", inst |-> NoInst, result |-> "Ok"])

CallExecute(inst) ==
    LET returned(r) ==
            Call(r.cpu,
                 [ex |-> "none", op |-> "execute", inst |-> inst, result |-> r.result])
    IN  returned(execute_arm_state(cpu, inst))

CallPipelineStep(raw) ==
    LET returned(r) ==
            Call(r.cpu,
                 [ex |-> "none", op |-> "step", inst |-> instruction(cpu.decoded),
                  result |-> r.result])
    IN  returned(pipeline_step(cpu, raw))

Init ==
    /\ cpu = new
    /\ pre = new
    /\ last = [ex |-> "none", op |-> "new", inst |-> NoInst, result |-> "Ok"]
    /\ booted = FALSE
    /\ steps = 0
    /\ left = NeverLeft

----------------------------------------------------------------------------
(* Spec: every host call and every opcode class, over short sequences.     *)

W_USER   == WordOf(0, 16)        \* 0x00000010
W_SYSTEM == WordOf(0, 31)        \* 0x0000001F
W_FLAGS  == WordOf(61440, 85)    \* 0xF0000055
W_0x100  == WordOf(0, 256)
W_0x200  == WordOf(0, 512)
W_0xAAAA == WordOf(0, 43690)
W_MINUS8 == WordOf(65535, 65528) \* 0xFFFFFFF8, the branch offset -8

DPInsts ==
    { DP("AL", "MOV", FALSE, 0, 0, Imm(W_USER)),
      DP("AL", "MOV", FALSE, 0, 0, Imm(W_SYSTEM)),
      DP("AL", "MOV", FALSE, 1, 0, Imm(W_FLAGS)),
      DP("AL", "MOV", FALSE, 13, 0, Imm(W_0xAAAA)),
      DP("AL", "MOV", FALSE, 15, 0, Imm(W_0x200)),
      DP("AL", "MOV", TRUE, 15, 0, RegOp(14)) }

Reset == steps < MaxSteps /\ CallReset

RaiseException == steps < MaxSteps /\ \E ex \in Exception : CallException(ex)

ExecuteBX == steps < MaxSteps /\ \E rm \in {0, 14} : CallExecute(BX("AL", rm))

ExecuteB_BL ==
    /\ steps < MaxSteps
    /\ \E link \in BOOLEAN, d \in {W_0x100, W_MINUS8} : CallExecute(B_BL("AL", link, d))

ExecuteDataProcessing == steps < MaxSteps /\ \E inst \in DPInsts : CallExecute(inst)

ExecuteMRS == steps < MaxSteps /\ \E spsr \in BOOLEAN : CallExecute(MRS("AL", spsr, 1))

ExecuteMSR_Reg ==
    /\ steps < MaxSteps
    /\ \E spsr \in BOOLEAN, rm \in {0, 1} : CallExecute(MSR_Reg("AL", spsr, rm))

ExecuteMSR_Flags ==
    /\ steps < MaxSteps
    /\ \E spsr \in BOOLEAN, op2 \in {RegOp(1), Imm(WordOf(40960, 0))} :
           CallExecute(MSR_Flags("AL", spsr, op2))

Next ==
    \/ Reset
    \/ RaiseException
    \/ ExecuteBX
    \/ ExecuteB_BL
    \/ ExecuteDataProcessing
    \/ ExecuteMRS
    \/ ExecuteMSR_Reg
    \/ ExecuteMSR_Flags

Spec == Init /\ [][Next]_vars

----------------------------------------------------------------------------
(* SpecBank: mode switches by MSR, exception entry and exception return,   *)
(* over longer sequences of fewer instructions.  The host resets the CPU   *)
(* before it steps it, as GbaRepl::run does.                               *)

BankDPInsts ==
    { DP("AL", "MOV", FALSE, 0, 0, Imm(W_USER)),
      DP("AL", "MOV", FALSE, 1, 0, Imm(W_SYSTEM)),
      DP("AL", "MOV", TRUE, 15, 0, RegOp(14)) }

BankReset == steps < MaxBankSteps /\ ~booted /\ CallReset

BankException ==
    /\ steps < MaxBankSteps
    /\ booted
    /\ \E ex \in {"SoftwareInterrupt", "FastInterrupt"} : CallException(ex)

BankDataProcessing ==
    /\ steps < MaxBankSteps
    /\ booted
    /\ \E inst \in BankDPInsts : CallExecute(inst)

BankMRS == steps < MaxBankSteps /\ booted /\ CallExecute(MRS("AL", FALSE, 2))

BankMSR_Reg ==
    /\ steps < MaxBankSteps
    /\ booted
    /\ \E rm \in {0, 1, 2} : CallExecute(MSR_Reg("AL", FALSE, rm))

NextBank ==
    \/ BankReset
    \/ BankException
    \/ BankDataProcessing
    \/ BankMRS
    \/ BankMSR_Reg

SpecBank == Init /\ [][NextBank]_vars

----------------------------------------------------------------------------
(* SpecAlu: one data-processing instruction on every pair of operands.     *)
(* The operands are loaded by the executor itself: R1 and R2 by MOV and    *)
(* the incoming C and V flags by MSR_Flags.                                *)

AluVals ==
    { Zero,
      WordOf(0, 1),             \* 0x00000001
      WordOf(0, 3),             \* 0x00000003
      WordOf(0, 5),             \* 0x00000005
      WordOf(32767, 65535),     \* 0x7FFFFFFF
      WordOf(32768, 0),         \* 0x80000000
      WordOf(65535, 65535) }    \* 0xFFFFFFFF

AluFlags == SUBSET {CARRY_FLAG_BIT, OVERFLOW_FLAG_BIT}

Loaded(a, b, fl) ==
    LET c1 == execute_arm_state(new, DP("AL", "MOV", FALSE, 1, 0, Imm(a))).cpu
        c2 == execute_arm_state(c1, DP("AL", "MOV", FALSE, 2, 0, Imm(b))).cpu
    IN   execute_arm_state(c2, MSR_Flags("AL", FALSE, Imm(fl))).cpu

InitAlu ==
    /\ \E a \in AluVals, b \in AluVals, fl \in AluFlags : cpu = Loaded(a, b, fl)
    /\ pre = new
    /\ last = [ex |-> "none", op |-> "new", inst |-> NoInst, result |-> "Ok"]
    /\ booted = FALSE
    /\ steps = 0
    /\ left = NeverLeft

AluDataProcessing ==
    /\ steps < MaxAluSteps
    /\ \E dpop \in ArmDPOP, s \in BOOLEAN, rd \in {0, PC} :
           CallExecute(DP("AL", dpop, s, rd, 1, RegOp(2)))

NextAlu == AluDataProcessing

SpecAlu == InitAlu /\ [][NextAlu]_vars

----------------------------------------------------------------------------
(* SpecPipe: the host resets the CPU and then steps the pipeline, raises   *)
(* exceptions and executes PC-changing instructions.                       *)

PipeInsts ==
    { BX("AL", 14),
      B_BL("AL", FALSE, W_0x100),
      B_BL("AL", TRUE, W_0x100),
      DP("AL", "MOV", FALSE, 15, 0, Imm(W_0x200)) }

PipeReset == steps < MaxPipeSteps /\ ~booted /\ CallReset

PipeStep ==
    /\ steps < MaxPipeSteps
    /\ booted
    /\ cpu.state = "ARM"
    /\ \E raw \in RawWords : CallPipelineStep(raw)

PipeException ==
    /\ steps < MaxPipeSteps
    /\ booted
    /\ \E ex \in {"SoftwareInterrupt", "NormalInterrupt"} : CallException(ex)

PipeExecute ==
    /\ steps < MaxPipeSteps
    /\ booted
    /\ \E inst \in PipeInsts : CallExecute(inst)

NextPipe ==
    \/ PipeReset
    \/ PipeStep
    \/ PipeException
    \/ PipeExecute

SpecPipe == Init /\ [][NextPipe]_vars

----------------------------------------------------------------------------
(* SpecPsr: PSR transfers.  After the host's reset, R0 is loaded with a    *)
(* PSR image and moved to CPSR or SPSR by MSR_Reg and MSR_Flags, and CPSR  *)
(* is read back by MRS.                                                    *)

W_PSR_FIQ      == WordOf(61440, 209)    \* 0xF00000D1: NZCV, I, F, FIQ mode
W_PSR_RESERVED == WordOf(4095, 65311)   \* 0x0FFFFF1F: bits 27..8, System mode

PsrVals == {W_USER, W_PSR_FIQ, W_PSR_RESERVED}

PsrReset == steps < MaxPsrSteps /\ ~booted /\ CallReset

PsrDataProcessing ==
    /\ steps < MaxPsrSteps
    /\ booted
    /\ \E v \in PsrVals : CallExecute(DP("AL", "MOV", FALSE, 0, 0, Imm(v)))

PsrMSR_Reg ==
    /\ steps < MaxPsrSteps
    /\ booted
    /\ \E spsr \in BOOLEAN : CallExecute(MSR_Reg("AL", spsr, 0))

PsrMSR_Flags ==
    /\ steps < MaxPsrSteps
    /\ booted
    /\ \E spsr \in BOOLEAN : CallExecute(MSR_Flags("AL", spsr, RegOp(0)))

PsrMRS == steps < MaxPsrSteps /\ booted /\ CallExecute(MRS("AL", FALSE, 1))

NextPsr ==
    \/ PsrReset
    \/ PsrDataProcessing
    \/ PsrMSR_Reg
    \/ PsrMSR_Flags
    \/ PsrMRS

SpecPsr == Init /\ [][NextPsr]_vars

----------------------------------------------------------------------------
(* SpecCond: one instruction of every opcode class under every condition   *)
(* code, on every combination of the N, Z, C and V flags.                  *)

ArmCondition ==
    {"EQ", "NE", "CS", "CC", "MI", "PL", "VS", "VC",
     "HI", "LS", "GE", "LT", "GT", "LE", "AL"}

FlagWords == SUBSET {SIGN_FLAG_BIT, ZERO_FLAG_BIT, CARRY_FLAG_BIT, OVERFLOW_FLAG_BIT}

\* One instruction per arm of the dispatch of execute_arm_state; SWI stands
\* for the classes of the `_` arm.
CondInsts(cond) ==
    { BX(cond, 14),
      B_BL(cond, TRUE, WordOf(0, 256)),
      MUL_MLA(cond, TRUE, TRUE, 0, 1, 2, 3),
      MULL_MLAL(cond, TRUE, TRUE, TRUE, 0, 1, 2, 3),
      DP(cond, "MVN", TRUE, 0, 0, Imm(Zero)),
      DP(cond, "SUB", TRUE, 15, 15, Imm(WordOf(0, 4))),
      MRS(cond, FALSE, 1),
      MSR_Reg(cond, FALSE, 0),
      MSR_Flags(cond, FALSE, Imm(Zero)),
      LDR_STR(cond),
      ArmInstruction(cond, "SWI", NoFields) }

CondReset == steps < MaxCondSteps /\ ~booted /\ CallReset

CondSetFlags ==
    /\ steps < MaxCondSteps
    /\ \E f \in FlagWords : CallExecute(MSR_Flags("AL", FALSE, Imm(f)))

CondExecute ==
    /\ steps < MaxCondSteps
    /\ \E cond \in ArmCondition : \E inst \in CondInsts(cond) : CallExecute(inst)

NextCond ==
    \/ CondReset
    \/ CondSetFlags
    \/ CondExecute

SpecCond == Init /\ [][NextCond]_vars

----------------------------------------------------------------------------
(* SpecFiq: mode changes across the FIQ boundary with distinct values in   *)
(* the visible R8..R12, R13 and their banks.  The CPU starts in FIQ mode,  *)
(* entered by a fast interrupt after the host's reset, with the FIQ        *)
(* registers and three mode words loaded by MOV.                           *)

W_FIQ    == WordOf(0, 17)        \* 0x00000011
W_0xBBBB == WordOf(0, 48059)
W_0xF8   == WordOf(0, 248)
W_0xFC   == WordOf(0, 252)
W_0x08   == WordOf(0, 8)

MovImm(rd, v) == DP("AL", "MOV", FALSE, rd, 0, Imm(v))

RECURSIVE RunAll(_, _)
RunAll(c, insts) ==
    IF insts = <<>> THEN c
    ELSE RunAll(execute_arm_state(c, Head(insts)).cpu, Tail(insts))

FiqLoaded ==
    RunAll(exception(reset(new), "FastInterrupt"),
           << MovImm(13, W_0xBBBB), MovImm(8, W_0xF8), MovImm(12, W_0xFC),
              MovImm(1, W_FIQ), MovImm(2, W_USER), MovImm(3, W_SYSTEM) >>)

InitFiq ==
    /\ cpu = FiqLoaded
    /\ pre = new
    /\ last = [ex |-> "none", op |-> "new", inst |-> NoInst, result |-> "Ok"]
    /\ booted = TRUE
    /\ steps = 0
    /\ left = NeverLeft

FiqReset == steps < MaxFiqSteps /\ CallReset

FiqException ==
    /\ steps < MaxFiqSteps
    /\ \E ex \in {"SoftwareInterrupt", "FastInterrupt"} : CallException(ex)

FiqDataProcessing ==
    /\ steps < MaxFiqSteps
    /\ \E inst \in {MovImm(13, W_0xAAAA), MovImm(8, W_0x08)} : CallExecute(inst)

FiqMSR_Reg ==
    /\ steps < MaxFiqSteps
    /\ \E rm \in {1, 2, 3} : CallExecute(MSR_Reg("AL", FALSE, rm))

NextFiq ==
    \/ FiqReset
    \/ FiqException
    \/ FiqDataProcessing
    \/ FiqMSR_Reg

SpecFiq == InitFiq /\ [][NextFiq]_vars

----------------------------------------------------------------------------
(* SpecMul: one multiply instruction on every tuple of operands.  The      *)
(* executor loads Rs = R1, Rm = R2, the accumulator R3 (and R4 for the     *)
(* long form) by MOV and the incoming flags by MSR_Flags.                  *)

MulVals ==
    { Zero,
      WordOf(0, 2),             \* 0x00000002
      WordOf(1, 1),             \* 0x00010001
      WordOf(32767, 65535),     \* 0x7FFFFFFF
      WordOf(32768, 0),         \* 0x80000000
      WordOf(65535, 65535) }    \* 0xFFFFFFFF

AccVals ==
    { WordOf(0, 1),             \* 0x00000001
      WordOf(32768, 0),         \* 0x80000000
      WordOf(65535, 65535) }    \* 0xFFFFFFFF

MulFlags == {{}, {CARRY_FLAG_BIT, OVERFLOW_FLAG_BIT}}

MulLoaded(a, b, lo, hi, fl) ==
    RunAll(new, << MovImm(1, a), MovImm(2, b), MovImm(3, lo), MovImm(4, hi),
                   MSR_Flags("AL", FALSE, Imm(fl)) >>)

InitMul ==
    /\ \E a \in MulVals, b \in MulVals, lo \in AccVals, hi \in AccVals, fl \in MulFlags :
           cpu = MulLoaded(a, b, lo, hi, fl)
    /\ pre = new
    /\ last = [ex |-> "none", op |-> "new", inst |-> NoInst, result |-> "Ok"]
    /\ booted = FALSE
    /\ steps = 0
    /\ left = NeverLeft

MulMUL_MLA ==
    /\ steps < MaxMulSteps
    /\ \E acc \in BOOLEAN, s \in BOOLEAN :
           CallExecute(MUL_MLA("AL", acc, s, 0, 3, 1, 2))

\* The same instruction handed to the private execute_mul_mla of arm7tdmi.rs.
MulMUL_MLA_arm7tdmi ==
    /\ steps < MaxMulSteps
    /\ \E acc \in BOOLEAN, s \in BOOLEAN :
           LET inst == MUL_MLA("AL", acc, s, 0, 3, 1, 2)
               returned(r) ==
                   Call(r.cpu, [ex |-> "none", op |-> "execute", inst |-> inst,
                                result |-> r.result])
           IN  returned(arm7tdmi_execute_mul_mla(cpu, inst))

MulMULL_MLAL ==
    /\ steps < MaxMulSteps
    /\ \E sgn \in BOOLEAN, acc \in BOOLEAN, s \in BOOLEAN :
           CallExecute(MULL_MLAL("AL", sgn, acc, s, 4, 3, 1, 2))

NextMul ==
    \/ MulMUL_MLA
    \/ MulMUL_MLA_arm7tdmi
    \/ MulMULL_MLAL

SpecMul == InitMul /\ [][NextMul]_vars

----------------------------------------------------------------------------
(* SpecState: the ways of changing the ARM/THUMB state.  After the host's  *)
(* reset, R0 is loaded with a word that is both a PSR image and a branch   *)
(* target, and is used by BX and by MSR_Reg; CPSR is also reloaded from    *)
(* SPSR by MOVS PC, R14, and exceptions are entered.                       *)

W_SVC   == WordOf(0, 19)         \* 0x00000013: Supervisor mode, T clear
W_SVC_T == WordOf(0, 51)         \* 0x00000033: Supervisor mode, T set

StateVals == {W_SVC, W_SVC_T, W_USER}

StateReset == steps < MaxStateSteps /\ ~booted /\ CallReset

StateException ==
    /\ steps < MaxStateSteps
    /\ booted
    /\ \E ex \in {"SoftwareInterrupt", "NormalInterrupt"} : CallException(ex)

StateBX == steps < MaxStateSteps /\ booted /\ CallExecute(BX("AL", 0))

StateMSR_Reg ==
    /\ steps < MaxStateSteps
    /\ booted
    /\ \E spsr \in BOOLEAN : CallExecute(MSR_Reg("AL", spsr, 0))

StateDataProcessing ==
    /\ steps < MaxStateSteps
    /\ booted
    /\ \E inst \in {MovImm(0, v) : v \in StateVals}
                   \cup {DP("AL", "MOV", TRUE, 15, 0, RegOp(14))} :
           CallExecute(inst)

NextState ==
    \/ StateReset
    \/ StateException
    \/ StateBX
    \/ StateMSR_Reg
    \/ StateDataProcessing

SpecState == Init /\ [][NextState]_vars

----------------------------------------------------------------------------
(* Properties. *)

IsExecute(opcodes) ==
    /\ last.op = "execute"
    /\ last.inst.opcode \in opcodes
    /\ condition_check(last.inst.cond, pre.cpsr)

\* The last call ran the mode change protocol: exception entry, or MSR_Reg
\* on its privileged path.
ModeChangeDone ==
    \/ last.op = "exception"
    \/ /\ IsExecute({"MSR_Reg"})
       /\ pre.mode # "User"
       /\ last.result = "Ok"

\* The last call was MSR_Reg writing CPSR on its privileged path.
MsrModeChangeDone ==
    /\ IsExecute({"MSR_Reg"})
    /\ ~last.inst.spsr
    /\ pre.mode # "User"
    /\ last.result = "Ok"

ControlBits == 0..7

\* C1: after reset, at every instruction boundary, the mode decoded from
\* CPSR bits 4..0 equals the cached mode.
C1_ModeBitsAgreeWithCache ==
    (booted /\ last.result # "Panic") => cpsr_mode(cpu.cpsr) = cpu.mode

\* C2: in every reachable state CPSR bits 4..0 hold one of the seven legal
\* mode patterns.  The newly created CPU (CPSR = 0) breaks this at once; the
\* property is stated for the states after the host's reset, where it
\* fails as well.
C2_ModeBitsLegal ==
    (booted /\ last.result # "Panic") => cpsr_mode(cpu.cpsr) \in Mode

\* C3 as stated: after any mode change old -> new (old = new included) the
\* visible R13/R14 equal new's banked slots and old's banked slots equal the
\* visible R13/R14 before the change.
C3_BanksAfterModeChange_Original ==
    (booted /\ ModeChangeDone) =>
        LET o == ModeIndex(pre.mode)
            n == ModeIndex(cpu.mode)
        IN  /\ cpu.gpr[13] = cpu.gpr_r13_all[n]
            /\ cpu.gpr[14] = cpu.gpr_r14_all[n]
            /\ cpu.gpr_r13_all[o] = pre.gpr[13]
            /\ cpu.gpr_r14_all[o] = pre.gpr[14]

\* C3 as amended: after any mode change old -> new the visible R13/R14 equal
\* new's banked slots, old's banked R13 equals the visible R13 before the
\* change, and old's banked R14 equals the visible R14 before the change
\* when old # new.
C3_BanksAfterModeChange ==
    ModeChangeDone =>
        LET o == ModeIndex(pre.mode)
            n == ModeIndex(cpu.mode)
        IN  /\ cpu.gpr[13] = cpu.gpr_r13_all[n]
            /\ cpu.gpr[14] = cpu.gpr_r14_all[n]
            /\ cpu.gpr_r13_all[o] = pre.gpr[13]
            /\ (pre.mode # cpu.mode => cpu.gpr_r14_all[o] = pre.gpr[14])

\* A mode change between two different modes with a non-zero stack pointer.
C3_Witness ==
    /\ ModeChangeDone
    /\ pre.mode # cpu.mode
    /\ pre.gpr[13] = W_0xAAAA
    /\ cpu.gpr_r13_all[ModeIndex(pre.mode)] = W_0xAAAA
    /\ cpu.gpr[13] = Zero

\* C4: a mode change A -> B followed at once by B -> A (A # B, both by MSR,
\* which writes no general register itself) restores the visible R13 and
\* R14 and, across the FIQ boundary, R8..R12.
C4_RoundTripRestores ==
    [][ ( /\ MsrModeChangeDone
          /\ cpu.mode # pre.mode
          /\ MsrModeChangeDone'
          /\ cpu'.mode = pre.mode ) =>
            /\ cpu'.gpr[13] = pre.gpr[13]
            /\ cpu'.gpr[14] = pre.gpr[14]
            /\ ((pre.mode = "FIQ") # (cpu.mode = "FIQ")) =>
                    \A r \in 8..12 : cpu'.gpr[r] = pre.gpr[r] ]_vars

\* C5: after reset() PC is 0, the CPSR mode bits and the cached mode are
\* Supervisor, T is 0 and the cached state is ARM, and I and F are 1.
C5_ResetState ==
    last.op = "reset" =>
        /\ cpu.gpr[PC] = Zero
        /\ cpsr_mode(cpu.cpsr) = "Supervisor"
        /\ cpu.mode = "Supervisor"
        /\ STATE_BIT \notin cpu.cpsr
        /\ cpu.state = "ARM"
        /\ IRQ_DISABLE_BIT \in cpu.cpsr
        /\ FIQ_DISABLE_BIT \in cpu.cpsr

\* A reset of a CPU that was in THUMB state, outside Supervisor mode, with
\* a non-zero PC and fast interrupts enabled.
C5_Witness ==
    /\ last.op = "reset"
    /\ pre.state = "THUMB"
    /\ pre.mode # "Supervisor"
    /\ pre.gpr[PC] # Zero
    /\ FIQ_DISABLE_BIT \notin pre.cpsr

\* C6: when the CPSR mode bits denote User mode, MSR_Reg or MSR_Flags
\* targeting CPSR leaves CPSR bits 7..0 unchanged.
C6_UserMsrKeepsControlBits ==
    ( /\ IsExecute({"MSR_Reg", "MSR_Flags"})
      /\ ~last.inst.spsr
      /\ last.result = "Ok"
      /\ cpsr_mode(pre.cpsr) = "User" ) =>
        cpu.cpsr \cap ControlBits = pre.cpsr \cap ControlBits

\* C7: for SUBS and CMP with Rd # R15 the C flag is 1 exactly when
\* Rn >= op2 as unsigned 32-bit values.
C7_SubCarryIsNoBorrow ==
    ( /\ IsExecute({"DataProcessing"})
      /\ last.inst.S
      /\ last.inst.dpop \in {"SUB", "CMP"}
      /\ last.inst.Rd # PC ) =>
        LET rn  == pre.gpr[last.inst.Rn]
            op2 == calculate_shft_field(last.inst, pre.gpr, flag_C(pre.cpsr))
        IN  flag_C(cpu.cpsr) = UnsignedGeq(rn, op2)

\* C8: in User mode, MRS of SPSR, MSR_Reg to SPSR and MSR_Flags to SPSR
\* return PrivilegedUserCode and change nothing in the CPU.
C8_UserSpsrAccessFails ==
    ( /\ IsExecute({"MRS", "MSR_Reg", "MSR_Flags"})
      /\ last.inst.spsr
      /\ pre.mode = "User" ) =>
        /\ last.result = "PrivilegedUserCode"
        /\ cpu = pre

\* MRS of SPSR was executed in User mode.
C8_Witness ==
    /\ IsExecute({"MRS"})
    /\ last.inst.spsr
    /\ pre.mode = "User"
    /\ cpsr_mode(pre.cpsr) = "User"
    /\ last.result = "PrivilegedUserCode"

\* C9 as stated: after exception(ex) I is 1, T is 0, and F is 1 if and only
\* if ex is Reset or FastInterrupt.
C9_ExceptionMasks_Original ==
    (booted /\ last.op = "exception") =>
        /\ IRQ_DISABLE_BIT \in cpu.cpsr
        /\ STATE_BIT \notin cpu.cpsr
        /\ (FIQ_DISABLE_BIT \in cpu.cpsr) <=> (last.ex \in {"Reset", "FastInterrupt"})

\* C9 as amended: after exception(ex) I is 1, T is 0, and F is 1 if and
\* only if ex is Reset or FastInterrupt or F was 1 before the call.
C9_ExceptionMasks ==
    last.op = "exception" =>
        /\ IRQ_DISABLE_BIT \in cpu.cpsr
        /\ STATE_BIT \notin cpu.cpsr
        /\ (FIQ_DISABLE_BIT \in cpu.cpsr) <=>
                (last.ex \in {"Reset", "FastInterrupt"} \/ FIQ_DISABLE_BIT \in pre.cpsr)

\* FastInterrupt entered in THUMB state with both interrupts enabled.
C9_Witness ==
    /\ last.op = "exception"
    /\ last.ex = "FastInterrupt"
    /\ STATE_BIT \in pre.cpsr
    /\ IRQ_DISABLE_BIT \notin pre.cpsr
    /\ FIQ_DISABLE_BIT \notin pre.cpsr
    /\ FIQ_DISABLE_BIT \in cpu.cpsr

\* C10: after exception(ex) the SPSR slot of the entry mode holds the CPSR
\* word of before the call, and the visible R14 and the entry mode's banked
\* R14 hold the return address, the PC of before the call; SoftwareInterrupt
\* from User mode with CPSR = 0x10 gives Supervisor, PC = 0x08, I = 1, F
\* unchanged and SPSR_svc = 0x10.
C10_ExceptionSavesCpsrAndReturn ==
    last.op = "exception" =>
        LET nmi == ModeIndex(mode_on_entry(last.ex))
        IN  /\ cpu.spsr[nmi] = pre.cpsr
            /\ cpu.gpr[14] = pre.gpr[PC]
            /\ cpu.gpr_r14_all[nmi] = pre.gpr[PC]
            /\ (last.ex = "SoftwareInterrupt" /\ pre.mode = "User" /\ pre.cpsr = W_USER) =>
                    /\ cpu.mode = "Supervisor"
                    /\ cpu.gpr[PC] = WordOf(0, 8)
                    /\ IRQ_DISABLE_BIT \in cpu.cpsr
                    /\ FIQ_DISABLE_BIT \notin cpu.cpsr
                    /\ cpu.spsr[3] = W_USER

\* SoftwareInterrupt entered from User mode with CPSR = 0x10.
C10_Witness ==
    /\ last.op = "exception"
    /\ last.ex = "SoftwareInterrupt"
    /\ pre.mode = "User"
    /\ pre.cpsr = W_USER
    /\ cpu.spsr[3] = W_USER

\* The exception table of the specification: kind, entry mode, vector offset.
ExceptionTable ==
    { <<"Reset",                "Supervisor", 0>>,
      <<"UndefinedInstruction", "Undefined",  4>>,
      <<"SoftwareInterrupt",    "Supervisor", 8>>,
      <<"PrefetchAbort",        "Abort",      12>>,
      <<"DataAbort",            "Abort",      16>>,
      <<"AddressExceeds26Bit",  "Supervisor", 20>>,
      <<"NormalInterrupt",      "IRQ",        24>>,
      <<"FastInterrupt",        "FIQ",        28>> }

\* C11: after exception(ex), for each of the eight kinds, the cached mode
\* and the CPSR mode bits are the entry mode of the table and PC is the
\* table's vector offset.
C11_ExceptionEntryTable ==
    last.op = "exception" =>
        \E row \in ExceptionTable :
            /\ row[1] = last.ex
            /\ cpu.mode = row[2]
            /\ cpsr_mode(cpu.cpsr) = row[2]
            /\ cpu.gpr[PC] = WordOf(0, row[3])

\* FastInterrupt entered outside FIQ mode, away from its vector.
C11_Witness ==
    /\ last.op = "exception"
    /\ last.ex = "FastInterrupt"
    /\ pre.mode # "FIQ"
    /\ pre.gpr[PC] = W_0x200
    /\ cpu.mode = "FIQ"
    /\ cpu.gpr[PC] = WordOf(0, 28)

\* The last call changed PC: exception entry, BX, B/BL, or a
\* data-processing write with Rd = R15.
PcChangeDone ==
    \/ last.op = "exception"
    \/ IsExecute({"BX", "B_BL"}) /\ last.result = "Ok"
    \/ /\ IsExecute({"DataProcessing"})
       /\ last.result = "Ok"
       /\ last.inst.Rd = PC
       /\ ~is_test(last.inst.dpop)

\* C12: after any operation that changes PC (BX, B/BL, a data-processing
\* write with Rd = R15, or exception entry) both pipeline slots hold NOP.
C12_PipelineFlushed ==
    (booted /\ PcChangeDone) =>
        /\ cpu.decoded = "NOP"
        /\ cpu.fetched = "NOP_RAW"

\* The last call was MSR_Reg writing CPSR from a source value whose mode
\* field is legal.
MsrCpsrDone ==
    /\ IsExecute({"MSR_Reg"})
    /\ ~last.inst.spsr
    /\ last.result = "Ok"
    /\ cpsr_mode(pre.gpr[last.inst.Rm]) \in Mode

\* The last call was MRS reading CPSR.
MrsCpsrDone ==
    /\ IsExecute({"MRS"})
    /\ ~last.inst.spsr
    /\ last.result = "Ok"

\* C13 as stated: in any CPU mode, MSR_Reg to CPSR with Rm = v (mode field
\* legal) followed by MRS of CPSR into Rd gives Rd & 0xF00000FF =
\* v & 0xF00000FF.
C13_MsrMrsReadsBack_Original ==
    [][ (booted /\ MsrCpsrDone /\ MrsCpsrDone') =>
            BitAnd(cpu'.gpr[last'.inst.Rd], NON_RESERVED_MASK)
                = BitAnd(pre.gpr[last.inst.Rm], NON_RESERVED_MASK) ]_vars

\* C13 as amended: in any privileged mode (the cached mode is not User),
\* MSR_Reg to CPSR with Rm = v (mode field legal) followed by MRS of CPSR
\* into Rd gives Rd & 0xF00000FF = v & 0xF00000FF.
C13_MsrMrsReadsBack ==
    [][ (MsrCpsrDone /\ pre.mode # "User" /\ MrsCpsrDone') =>
            BitAnd(cpu'.gpr[last'.inst.Rd], NON_RESERVED_MASK)
                = BitAnd(pre.gpr[last.inst.Rm], NON_RESERVED_MASK) ]_vars

\* MRS of CPSR into R1 in FIQ mode, which only MSR_Reg with R0 = 0xF00000D1
\* on its privileged path reaches; R1 reads the flags, masks and mode of R0.
C13_Witness ==
    /\ MrsCpsrDone
    /\ cpu.mode = "FIQ"
    /\ cpu.gpr[0] = W_PSR_FIQ
    /\ cpu.gpr[1] = W_PSR_FIQ
    /\ pre.cpsr = W_PSR_FIQ

\* C14: in every reachable state CPSR bits 27..8 are all zero.
C14_ReservedBitsZero ==
    booted => cpu.cpsr \cap (8..27) = {}

\* C15: an instruction whose condition fails against the CPSR flags returns
\* Ok and leaves the general registers, the banks, CPSR, the SPSRs, the cached
\* mode and state and the pipeline slots as they were, whatever its opcode
\* class.
C15_FailedConditionChangesNothing ==
    (last.op = "execute" /\ ~condition_check(last.inst.cond, pre.cpsr)) =>
        /\ last.result = "Ok"
        /\ cpu.gpr = pre.gpr
        /\ cpu.gpr_r8_r12_fiq = pre.gpr_r8_r12_fiq
        /\ cpu.gpr_r8_r12_other = pre.gpr_r8_r12_other
        /\ cpu.gpr_r13_all = pre.gpr_r13_all
        /\ cpu.gpr_r14_all = pre.gpr_r14_all
        /\ cpu.cpsr = pre.cpsr
        /\ cpu.spsr = pre.spsr
        /\ cpu.mode = pre.mode
        /\ cpu.state = pre.state
        /\ cpu.decoded = pre.decoded
        /\ cpu.fetched = pre.fetched

\* A skipped MULL_MLAL: NE with Z set by a flag write.
C15_Witness ==
    /\ last.op = "execute"
    /\ last.inst.opcode = "MULL_MLAL"
    /\ last.inst.cond = "NE"
    /\ flag_Z(pre.cpsr)
    /\ last.result = "Ok"
    /\ cpu = pre

LogicalOps == {"AND", "EOR", "TST", "TEQ", "ORR", "MOV", "BIC", "MVN"}

LogicalSDone ==
    /\ IsExecute({"DataProcessing"})
    /\ last.inst.S
    /\ last.inst.dpop \in LogicalOps
    /\ last.result = "Ok"

\* C16 as stated: an S-bit logical operation leaves V as it was, for any
\* operands and any destination register.
C16_LogicalKeepsV_Original ==
    LogicalSDone => (flag_V(cpu.cpsr) = flag_V(pre.cpsr))

\* C16: an S-bit logical operation whose destination is not R15 leaves V as
\* it was, for any operands.
C16_LogicalKeepsV ==
    (LogicalSDone /\ last.inst.Rd # PC) => (flag_V(cpu.cpsr) = flag_V(pre.cpsr))

\* ANDS R0, R1, R2 of 0x80000000 and 0xFFFFFFFF with V set and C clear:
\* N becomes set, V stays set.
C16_Witness ==
    /\ LogicalSDone
    /\ last.inst.dpop = "AND"
    /\ last.inst.Rd = 0
    /\ pre.gpr[1] = WordOf(32768, 0)
    /\ pre.gpr[2] = WordOf(65535, 65535)
    /\ flag_V(pre.cpsr) /\ ~flag_C(pre.cpsr) /\ ~flag_N(pre.cpsr)
    /\ flag_V(cpu.cpsr) /\ flag_N(cpu.cpsr)
    /\ cpu.gpr[0] = WordOf(32768, 0)

AddSDone ==
    /\ IsExecute({"DataProcessing"})
    /\ last.inst.S
    /\ last.inst.dpop \in {"ADD", "CMN"}
    /\ last.inst.Rd # PC
    /\ last.result = "Ok"

\* (Rn ^ result) & (op2 ^ result) & 0x80000000 is nonzero.
SignsOverflow(rn, op2, result) ==
    31 \in BitAnd(BitXor(rn, result), BitXor(op2, result))

\* C17: after ADDS or CMN with Rd other than R15, V is set exactly when
\* (Rn ^ result) & (op2 ^ result) & 0x80000000 is nonzero, where result is
\* Rn + op2 modulo 2^32; Rn = 0x7FFFFFFF and op2 = 1 give 0x80000000 with
\* N = 1, Z = 0, C = 0 and V = 1.
C17_AddOverflowFlag ==
    AddSDone =>
        LET rn  == pre.gpr[last.inst.Rn]
            op2 == calculate_shft_field(last.inst, pre.gpr, flag_C(pre.cpsr))
        IN  /\ flag_V(cpu.cpsr) = SignsOverflow(rn, op2, wrapping_add(rn, op2))
            /\ (rn = WordOf(32767, 65535) /\ op2 = WordOf(0, 1)) =>
                   /\ wrapping_add(rn, op2) = WordOf(32768, 0)
                   /\ last.inst.dpop = "ADD" => cpu.gpr[last.inst.Rd] = WordOf(32768, 0)
                   /\ flag_N(cpu.cpsr) /\ ~flag_Z(cpu.cpsr)
                   /\ ~flag_C(cpu.cpsr) /\ flag_V(cpu.cpsr)

\* ADDS R0, R1, R2 with R1 = 0x7FFFFFFF and R2 = 1, V clear before.
C17_Witness ==
    /\ AddSDone
    /\ last.inst.dpop = "ADD"
    /\ pre.gpr[1] = WordOf(32767, 65535)
    /\ pre.gpr[2] = WordOf(0, 1)
    /\ ~flag_V(pre.cpsr)
    /\ cpu.gpr[0] = WordOf(32768, 0)
    /\ flag_V(cpu.cpsr)

\* C18: a mode change with exactly one of the old and the new mode FIQ saves
\* the visible R8..R12 into the outgoing bank and loads the incoming bank; a
\* mode change with both or neither mode FIQ leaves the visible R8..R12 and
\* both banks as they were.  User with R13 = 0xAAAA changing to FIQ with
\* R13_fiq = 0xBBBB gives visible R13 = 0xBBBB, R13_usr = 0xAAAA and R8..R12
\* from the FIQ bank.
C18_FiqBankSwap ==
    ModeChangeDone =>
        /\ IF (pre.mode = "FIQ") # (cpu.mode = "FIQ")
           THEN IF cpu.mode = "FIQ"
                THEN /\ cpu.gpr_r8_r12_other = VisibleR8R12(pre)
                     /\ VisibleR8R12(cpu) = pre.gpr_r8_r12_fiq
                     /\ cpu.gpr_r8_r12_fiq = pre.gpr_r8_r12_fiq
                ELSE /\ cpu.gpr_r8_r12_fiq = VisibleR8R12(pre)
                     /\ VisibleR8R12(cpu) = pre.gpr_r8_r12_other
                     /\ cpu.gpr_r8_r12_other = pre.gpr_r8_r12_other
           ELSE /\ VisibleR8R12(cpu) = VisibleR8R12(pre)
                /\ cpu.gpr_r8_r12_fiq = pre.gpr_r8_r12_fiq
                /\ cpu.gpr_r8_r12_other = pre.gpr_r8_r12_other
        /\ (/\ pre.mode = "User" /\ cpu.mode = "FIQ"
            /\ pre.gpr[13] = W_0xAAAA
            /\ pre.gpr_r13_all[ModeIndex("FIQ")] = W_0xBBBB) =>
               /\ cpu.gpr[13] = W_0xBBBB
               /\ cpu.gpr_r13_all[ModeIndex("User")] = W_0xAAAA
               /\ VisibleR8R12(cpu) = pre.gpr_r8_r12_fiq

\* A fast interrupt taken in User mode with R13 = 0xAAAA and R8 = 0x08, the
\* FIQ bank holding R13 = 0xBBBB, R8 = 0xF8 and R12 = 0xFC.
C18_Witness ==
    /\ last.op = "exception"
    /\ pre.mode = "User" /\ cpu.mode = "FIQ"
    /\ pre.gpr[13] = W_0xAAAA /\ pre.gpr[8] = W_0x08
    /\ cpu.gpr[13] = W_0xBBBB
    /\ cpu.gpr[8] = W_0xF8 /\ cpu.gpr[12] = W_0xFC
    /\ cpu.gpr_r8_r12_other[0] = W_0x08
    /\ cpu.gpr_r13_all[ModeIndex("User")] = W_0xAAAA

\* C19: B and BL executed with R15 = p and branch offset d leave
\* PC = (p + d) mod 2^32; BL leaves R14 = (p - 4) mod 2^32 and B leaves R14 as
\* it was; p = 0x10 and d = 0x100 give R14 = 0x0C and PC = 0x110.
C19_BranchAndLink ==
    (IsExecute({"B_BL"}) /\ last.result = "Ok") =>
        LET p == pre.gpr[PC]
            d == last.inst.offset
        IN  /\ cpu.gpr[PC] = wrapping_add(p, d)
            /\ cpu.gpr[14] = IF last.inst.link THEN wrapping_sub(p, WordOf(0, 4))
                                               ELSE pre.gpr[14]
            /\ (last.inst.link /\ p = WordOf(0, 16) /\ d = WordOf(0, 256)) =>
                   /\ cpu.gpr[14] = WordOf(0, 12)
                   /\ cpu.gpr[PC] = WordOf(0, 272)

\* BL +0x100 executed with R15 = 0x10, the data abort vector, and R14 other
\* than 0x0C before.
C19_Witness ==
    /\ IsExecute({"B_BL"})
    /\ last.inst.link
    /\ last.inst.offset = WordOf(0, 256)
    /\ pre.gpr[PC] = WordOf(0, 16)
    /\ pre.gpr[14] # WordOf(0, 12)
    /\ cpu.gpr[14] = WordOf(0, 12)
    /\ cpu.gpr[PC] = WordOf(0, 272)

\* C20: in a privileged mode m, MSR_Reg targeting SPSR with source value v
\* leaves SPSR_m = (v & 0xF00000FF) | (previous SPSR_m & ~0xF00000FF) and
\* leaves CPSR as it was.
C20_MsrSpsrWrite ==
    (/\ IsExecute({"MSR_Reg"})
     /\ last.inst.spsr
     /\ pre.mode # "User"
     /\ last.result = "Ok") =>
        LET m == ModeIndex(pre.mode)
            v == pre.gpr[last.inst.Rm]
        IN  /\ cpu.spsr[m] = BitOr(BitAnd(v, NON_RESERVED_MASK),
                                   BitAnd(pre.spsr[m], BitNot(NON_RESERVED_MASK)))
            /\ cpu.cpsr = pre.cpsr

\* The last call was an S-bit data-processing instruction with Rd = R15.
ReturnDone ==
    /\ IsExecute({"DataProcessing"})
    /\ last.inst.S
    /\ last.inst.Rd = PC
    /\ last.result = "Ok"

\* C21: when an S-bit data-processing instruction with Rd = R15 restores a
\* CPSR whose mode differs from the current mode, the mode change protocol
\* runs: the cached mode equals the restored CPSR mode, the visible R13 and
\* R14 are the restored mode's banked values, and the exception mode's R13
\* and R14 are saved in its bank.
C21_ReturnChangesMode ==
    (/\ booted
     /\ ReturnDone
     /\ cpsr_mode(pre.cpsr) = pre.mode
     /\ cpsr_mode(pre.spsr[ModeIndex(pre.mode)]) \in Mode \ {pre.mode}) =>
        LET o == ModeIndex(pre.mode)
            n == ModeIndex(cpsr_mode(cpu.cpsr))
        IN  /\ cpu.mode = cpsr_mode(cpu.cpsr)
            /\ cpu.gpr[13] = pre.gpr_r13_all[n]
            /\ cpu.gpr[14] = pre.gpr_r14_all[n]
            /\ cpu.gpr_r13_all[o] = pre.gpr[13]
            /\ cpu.gpr_r14_all[o] = pre.gpr[14]

\* C22: an S-bit data-processing instruction with Rd = R15 executed in mode
\* m, the mode CPSR holds, leaves CPSR equal to SPSR_m as it was before the
\* instruction, whatever the operation and its operands.
C22_ReturnRestoresSpsr ==
    (booted /\ ReturnDone /\ cpsr_mode(pre.cpsr) \in Mode) =>
        cpu.cpsr = pre.spsr[ModeIndex(cpsr_mode(pre.cpsr))]

\* Reset done as the claim describes it: PC is cleared, then the exception
\* entry for Reset runs.
ResetByException(c) == exception([c EXCEPT !.gpr[PC] = Zero], "Reset")

\* C23: reset() leaves the registers, the banks, CPSR, the SPSRs and the
\* cached mode and state as clearing PC and entering the Reset exception
\* would: the old mode's R13 and R14 saved to its bank, Supervisor's banked
\* R13 visible, the old CPSR in SPSR_svc, R8..R12 swapped when the old mode
\* was FIQ.
C23_ResetIsExceptionEntry ==
    last.op = "reset" =>
        LET e == ResetByException(pre)
        IN  /\ cpu.gpr = e.gpr
            /\ cpu.gpr_r13_all = e.gpr_r13_all
            /\ cpu.gpr_r14_all = e.gpr_r14_all
            /\ cpu.gpr_r8_r12_fiq = e.gpr_r8_r12_fiq
            /\ cpu.gpr_r8_r12_other = e.gpr_r8_r12_other
            /\ cpu.cpsr = e.cpsr
            /\ cpu.spsr = e.spsr
            /\ cpu.mode = e.mode
            /\ cpu.state = e.state

\* The last call was an S-bit data-processing instruction that writes a
\* destination other than R15.
WritingSDone ==
    /\ IsExecute({"DataProcessing"})
    /\ last.inst.S
    /\ ~is_test(last.inst.dpop)
    /\ last.inst.Rd # PC
    /\ last.result = "Ok"

\* C24: for every non-test operation with Rd other than R15, the S-bit
\* variant writes to Rd the result the non-S variant writes, the table value
\* modulo 2^32 (SBC = Rn - op2 - (1 - C), RSC = op2 - Rn - (1 - C)), for all
\* Rn, op2 and incoming C.
C24_SVariantSameResult ==
    WritingSDone =>
        cpu.gpr[last.inst.Rd] =
            execute_data_processing(pre, [last.inst EXCEPT !.S = FALSE]).cpu.gpr[last.inst.Rd]

\* Bit 32 of the single sum a + b + cin over unsigned 32-bit operands, and
\* the signed overflow of the same three-term sum.
Sum3Carry(a, b, cin) ==
    LET l == Lo16(a) + Lo16(b) + cin
    IN  Hi16(a) + Hi16(b) + (l \div 65536) > 65535

Sum3Overflow(a, b, cin) ==
    LET h(l) == SHi16(a) + SHi16(b) + (l \div 65536)
        out(x) == x < -32768 \/ x > 32767
    IN  out(h(Lo16(a) + Lo16(b) + cin))

\* C25: after ADCS with Rd other than R15, C is bit 32 of the single sum
\* Rn + op2 + C over unsigned 32-bit operands and V is the signed overflow of
\* that same sum, for all Rn, op2 and incoming C.
C25_AdcFlags ==
    (/\ IsExecute({"DataProcessing"})
     /\ last.inst.S
     /\ last.inst.dpop = "ADC"
     /\ last.inst.Rd # PC
     /\ last.result = "Ok") =>
        LET rn  == pre.gpr[last.inst.Rn]
            op2 == calculate_shft_field(last.inst, pre.gpr, flag_C(pre.cpsr))
            cin == IF flag_C(pre.cpsr) THEN 1 ELSE 0
        IN  /\ flag_C(cpu.cpsr) = Sum3Carry(rn, op2, cin)
            /\ flag_V(cpu.cpsr) = Sum3Overflow(rn, op2, cin)

\* The product of two words read as unsigned, and read as signed, 32-bit
\* integers, modulo 2^64, as limbs.
UnsignedProduct(a, b) == U64WrappingMul(a, b)

SignedProduct(a, b) == U64WrappingMul(SignExtend64(a), SignExtend64(b))

\* C26: MULL without accumulate writes to Rn:Rd the product of Rs and Rm
\* read as unsigned integers for the unsigned variant and as signed integers
\* for the signed variant, for all operands, bit 31 set included.
C26_LongMultiplyProduct ==
    (IsExecute({"MULL_MLAL"}) /\ ~last.inst.A /\ last.result = "Ok") =>
        LET rs == pre.gpr[last.inst.Rs]
            rm == pre.gpr[last.inst.Rm]
            written(p) == /\ cpu.gpr[last.inst.Rn] = U64High(p)
                          /\ cpu.gpr[last.inst.Rd] = U64Low(p)
        IN  written(IF last.inst.signed THEN SignedProduct(rs, rm)
                                        ELSE UnsignedProduct(rs, rm))

\* The u64 old Rn * 2^32 + old Rd, both halves read as unsigned, as limbs.
Concat64(hi, lo) == <<Lo16(lo), Hi16(lo), Lo16(hi), Hi16(hi)>>

\* C27: MLAL writes to Rn:Rd the value (product + (old Rn * 2^32 + old Rd))
\* mod 2^64 with old Rn and old Rd read as unsigned halves, for all old Rd,
\* bit 31 set included.
C27_LongMultiplyAccumulate ==
    (IsExecute({"MULL_MLAL"}) /\ last.inst.A /\ last.result = "Ok") =>
        LET rs == pre.gpr[last.inst.Rs]
            rm == pre.gpr[last.inst.Rm]
            written(p) == /\ cpu.gpr[last.inst.Rn] = U64High(p)
                          /\ cpu.gpr[last.inst.Rd] = U64Low(p)
        IN  written(U64WrappingAdd(
                        IF last.inst.signed THEN SignedProduct(rs, rm)
                                            ELSE UnsignedProduct(rs, rm),
                        Concat64(pre.gpr[last.inst.Rn], pre.gpr[last.inst.Rd])))

\* C29: MUL and MLA write Rn = (Rs * Rm, plus Rd when accumulating) mod 2^32;
\* with the S bit N and Z are set from that result and V keeps its value;
\* without the S bit no CPSR bit changes.
C29_MultiplyResultAndFlags ==
    (IsExecute({"MUL_MLA"}) /\ last.result = "Ok") =>
        LET rs == pre.gpr[last.inst.Rs]
            rm == pre.gpr[last.inst.Rm]
            holds(x) ==
                /\ cpu.gpr[last.inst.Rn] = x
                /\ IF last.inst.S
                   THEN /\ flag_N(cpu.cpsr) = (31 \in x)
                        /\ flag_Z(cpu.cpsr) = (x = Zero)
                        /\ flag_V(cpu.cpsr) = flag_V(pre.cpsr)
                   ELSE cpu.cpsr = pre.cpsr
                /\ (~last.inst.A /\ rs = WordOf(65535, 65535) /\ rm = WordOf(65535, 65535))
                       => x = WordOf(0, 1)
                /\ (~last.inst.A /\ rs = WordOf(1, 1) /\ rm = WordOf(1, 1))
                       => x = WordOf(2, 1)
                /\ (~last.inst.A /\ rs = WordOf(32768, 0) /\ rm = WordOf(0, 2))
                       => x = Zero
        IN  holds(IF last.inst.A
                  THEN wrapping_add(wrapping_mul(rs, rm), pre.gpr[last.inst.Rd])
                  ELSE wrapping_mul(rs, rm))

\* Bits 31..24 of a PSR.
FlagByte == 24..31

\* C28: MSR_Flags sets bits 31..24 of the targeted PSR (CPSR, or the current
\* mode's SPSR when the SPSR bit is set in a privileged mode) to the
\* operand's bits 31..24 and leaves bits 23..0 of the target, the other
\* PSRs, the general and banked registers and the cached mode as they were.
C28_MsrFlagsFrame ==
    (IsExecute({"MSR_Flags"}) /\ last.result = "Ok") =>
        LET op == calculate_shsr_field(last.inst, pre.gpr)
            m  == ModeIndex(pre.mode)
            written(old) == (op \cap FlagByte) \cup (old \ FlagByte)
        IN  /\ IF last.inst.spsr
               THEN /\ pre.mode # "User"
                    /\ cpu.spsr = [pre.spsr EXCEPT ![m] = written(pre.spsr[m])]
                    /\ cpu.cpsr = pre.cpsr
               ELSE /\ cpu.cpsr = written(pre.cpsr)
                    /\ cpu.spsr = pre.spsr
            /\ cpu.gpr = pre.gpr
            /\ cpu.gpr_r8_r12_fiq = pre.gpr_r8_r12_fiq
            /\ cpu.gpr_r8_r12_other = pre.gpr_r8_r12_other
            /\ cpu.gpr_r13_all = pre.gpr_r13_all
            /\ cpu.gpr_r14_all = pre.gpr_r14_all
            /\ cpu.mode = pre.mode

\* MSR SPSR_flg, R0 in Supervisor mode with R0 = 0x0FFFFF1F and
\* SPSR_svc = 0xD3: the slot becomes 0x0F0000D3.
C28_Witness ==
    /\ IsExecute({"MSR_Flags"})
    /\ last.inst.spsr
    /\ last.result = "Ok"
    /\ pre.mode = "Supervisor"
    /\ pre.gpr[0] = W_PSR_RESERVED
    /\ pre.spsr[ModeIndex("Supervisor")] = WordOf(0, 211)
    /\ cpu.spsr[ModeIndex("Supervisor")] = WordOf(3840, 211)

\* C30: over any sequence of mode changes, exception entries and resets,
\* the R8..R12 visible on entering FIQ mode are those that were visible when
\* FIQ mode was last left (or the initial FIQ bank), and those visible on
\* entering a non-FIQ mode are those that were visible when a non-FIQ mode
\* was last left: a write made in one group never shows in the other.
C30_BankGroupsIsolated ==
    [][ BankGroup(cpu') # BankGroup(cpu) =>
            VisibleR8R12(cpu') = left[BankGroup(cpu')] ]_vars


\* The last call was MSR_Reg writing CPSR on its privileged path from a
\* source value whose mode field is the current mode (cached mode and CPSR
\* mode field agreeing before the call).
MsrSameModeDone ==
    /\ MsrModeChangeDone
    /\ pre.mode = cpsr_mode(pre.cpsr)
    /\ cpsr_mode(pre.gpr[last.inst.Rm]) = pre.mode

\* The banked storage of every mode other than m, and the R8..R12 bank that
\* is not visible in m, are the same in c1 and c0.
OtherBanksKept(c1, c0, m) ==
    /\ \A i \in (0..6) \ {ModeIndex(m)} :
          /\ c1.gpr_r13_all[i] = c0.gpr_r13_all[i]
          /\ c1.gpr_r14_all[i] = c0.gpr_r14_all[i]
          /\ c1.spsr[i] = c0.spsr[i]
    /\ IF m = "FIQ"
       THEN c1.gpr_r8_r12_other = c0.gpr_r8_r12_other
       ELSE c1.gpr_r8_r12_fiq = c0.gpr_r8_r12_fiq

\* C31: in a privileged mode, an MSR_Reg write to CPSR whose source value
\* carries the mode field of the current mode changes only the non-reserved
\* CPSR bits: the visible R13 and R14, the banked registers of the other
\* modes and the current mode's SPSR slot are left unchanged.
C31_MsrSameModeFrame ==
    (booted /\ MsrSameModeDone) =>
        /\ BitAnd(cpu.cpsr, BitNot(NON_RESERVED_MASK))
              = BitAnd(pre.cpsr, BitNot(NON_RESERVED_MASK))
        /\ cpu.gpr[13] = pre.gpr[13]
        /\ cpu.gpr[14] = pre.gpr[14]
        /\ OtherBanksKept(cpu, pre, pre.mode)
        /\ cpu.spsr[ModeIndex(pre.mode)] = pre.spsr[ModeIndex(pre.mode)]


\* C32: after reset, at every instruction boundary, the cached state field
\* (ARM or THUMB) is the state encoded by CPSR bit 5 (T).
C32_StateMatchesTBit ==
    (booted /\ last.result # "Panic") => cpu.state = cpsr_state(cpu.cpsr)

============================================================================
